---------------------------- MODULE Spec2Model ----------------------------
(***************************************************************************)
(* A model of src/generators/typescript/GeneratorUtils.ts: the static      *)
(* conversion helpers of the TypeScript catbuffer generator.               *)
(*                                                                         *)
(* Representation of the JavaScript values the helpers work on:            *)
(*   - a Uint8Array is a record [buffer, byteOffset, length]: the bytes of *)
(*     its ArrayBuffer and the window of it the array shows;               *)
(*   - a string is a sequence of one-character strings;                    *)
(*   - a BigInt, and a Number that holds a non-negative integer which may  *)
(*     exceed 2^31 - 1, is a little-endian sequence of 16-bit limbs with   *)
(*     no most-significant zero limb (<<>> is 0), because the model        *)
(*     checker's own integers are 32 bits wide;                            *)
(*   - a Number that is an index, a size or a signed byte is an integer;   *)
(*   - a call's outcome is a record [kind, val], kind being "bigint",      *)
(*     "number" (limbs), "int", "nan", "bytes" (a Uint8Array), "pair"      *)
(*     (a number[] of two limb numbers) or "error" (val names the error).  *)
(***************************************************************************)
EXTENDS Integers, Sequences, FiniteSets

VARIABLES
    op,     \* the function called last ("none" before the first call)
    args,   \* the arguments of that call, as they were when it was made
    heap,   \* the Uint8Array arguments of that call, as they are after it
    ret,    \* what the call returned or threw
    prev,   \* the call whose result was passed on to this call, if any
    calls   \* the number of calls made so far

vars == <<op, args, heap, ret, prev, calls>>

(***************************************************************************)
(* Bounds of the model.                                                    *)
(***************************************************************************)
MaxCalls == 2
MaxLen == 5
MaxConcatLen == 2
MaxLimbs == 5
MaxWidth == 5
MaxSize == 24
MaxAlignment == 9
Span == 40

(***************************************************************************)
(* Non-negative integers as little-endian sequences of 16-bit limbs.       *)
(***************************************************************************)
Limb == 2^16

Byte == 0..255

RECURSIVE Norm(_)
Norm(s) ==
    IF s = <<>> THEN <<>>
    ELSE IF s[Len(s)] = 0 THEN Norm(SubSeq(s, 1, Len(s) - 1))
    ELSE s

\* n is an integer in 0 .. 2^31 - 1
Nat2L(n) == Norm(<<n % Limb, n \div Limb>>)

LimbAt(a, i) == IF i <= Len(a) THEN a[i] ELSE 0

Max(x, y) == IF x >= y THEN x ELSE y

\* a * m + c, for 0 <= m <= 2^8 and 0 <= c < 2^16
RECURSIVE LMulAdd(_, _, _)
LMulAdd(a, m, c) ==
    IF a = <<>> THEN (IF c = 0 THEN <<>> ELSE <<c>>)
    ELSE LET t == a[1] * m + c
         IN  Norm(<<t % Limb>> \o LMulAdd(Tail(a), m, t \div Limb))

RECURSIVE LAddC(_, _, _)
LAddC(a, b, c) ==
    IF a = <<>> /\ b = <<>> THEN (IF c = 0 THEN <<>> ELSE <<c>>)
    ELSE LET t == LimbAt(a, 1) + LimbAt(b, 1) + c
         IN  <<t % Limb>> \o LAddC(IF a = <<>> THEN <<>> ELSE Tail(a),
                                   IF b = <<>> THEN <<>> ELSE Tail(b),
                                   t \div Limb)

LAdd(a, b) == Norm(LAddC(a, b, 0))

\* a < b, both normal
RECURSIVE LLess(_, _)
LLess(a, b) ==
    IF Len(a) # Len(b) THEN Len(a) < Len(b)
    ELSE IF a = <<>> THEN FALSE
    ELSE IF a[Len(a)] # b[Len(b)] THEN a[Len(a)] < b[Len(b)]
    ELSE LLess(Norm(SubSeq(a, 1, Len(a) - 1)), Norm(SubSeq(b, 1, Len(b) - 1)))

LLeq(a, b) == a = b \/ LLess(a, b)

\* a * 2^32 and floor(a / 2^32) and a mod 2^32
LShl32(a) == IF a = <<>> THEN <<>> ELSE <<0, 0>> \o a
LShr32(a) == IF Len(a) <= 2 THEN <<>> ELSE SubSeq(a, 3, Len(a))
LMod32(a) == Norm(SubSeq(a, 1, IF Len(a) < 2 THEN Len(a) ELSE 2))


(***************************************************************************)
(* Uint8Array, ArrayBuffer and DataView.                                   *)
(***************************************************************************)
\* new Uint8Array(n): n zero bytes on an ArrayBuffer of its own
ZeroBytes(n) == [k \in 1..n |-> 0]

\* a Uint8Array showing the whole of a fresh ArrayBuffer holding bytes
Uint8Array(bytes) == [buffer |-> bytes, byteOffset |-> 0, length |-> Len(bytes)]

\* the elements the array shows, first to last
Elems(a) == SubSeq(a.buffer, a.byteOffset + 1, a.byteOffset + a.length)

\* whether a[i] is an element (otherwise a[i] reads undefined and a[i] = v stores nothing)
HasIndex(a, i) == i >= 0 /\ i < a.length

Get(a, i) == a.buffer[a.byteOffset + i + 1]

Store(a, i, v) ==
    IF HasIndex(a, i) THEN [a EXCEPT !.buffer[a.byteOffset + i + 1] = v % 256] ELSE a

\* TypedArray.prototype.reverse: in place, on the array's own window of the buffer
Reverse(a) ==
    [a EXCEPT !.buffer =
        [k \in 1..Len(a.buffer) |->
            IF k > a.byteOffset /\ k <= a.byteOffset + a.length
            THEN a.buffer[2 * a.byteOffset + a.length + 1 - k]
            ELSE a.buffer[k]]]

\* TypedArray.prototype.slice(start, end): a copy on a buffer of its own
Slice(a, start, end) ==
    LET rel(x) == IF x < 0 THEN Max(a.length + x, 0)
                  ELSE IF x > a.length THEN a.length ELSE x
        from == rel(start)
        to == rel(end)
    IN  Uint8Array([k \in 1..Max(to - from, 0) |-> Get(a, from + k - 1)])

\* DataView over a whole ArrayBuffer (a byte sequence): whether width bytes at 0 exist
ViewHas(buffer, width) == width <= Len(buffer)

setUint8(buffer, value) == [buffer EXCEPT ![1] = LimbAt(value, 1) % 256]

setUint16(buffer, value, littleEndian) ==
    LET x == LimbAt(value, 1)
    IN  IF littleEndian
        THEN [buffer EXCEPT ![1] = x % 256, ![2] = x \div 256]
        ELSE [buffer EXCEPT ![1] = x \div 256, ![2] = x % 256]

setUint32(buffer, value, littleEndian) ==
    LET lo == LimbAt(value, 1)
        hi == LimbAt(value, 2)
    IN  IF littleEndian
        THEN [buffer EXCEPT ![1] = lo % 256, ![2] = lo \div 256,
                            ![3] = hi % 256, ![4] = hi \div 256]
        ELSE [buffer EXCEPT ![1] = hi \div 256, ![2] = hi % 256,
                            ![3] = lo \div 256, ![4] = lo % 256]

getUint8(buffer) == Nat2L(buffer[1])

getUint16(buffer, littleEndian) ==
    IF littleEndian THEN Nat2L(buffer[1] + 256 * buffer[2])
    ELSE Nat2L(buffer[2] + 256 * buffer[1])

getUint32(buffer, littleEndian) ==
    IF littleEndian
    THEN Norm(<<buffer[1] + 256 * buffer[2], buffer[3] + 256 * buffer[4]>>)
    ELSE Norm(<<buffer[4] + 256 * buffer[3], buffer[2] + 256 * buffer[1]>>)

(***************************************************************************)
(* Strings of digits.                                                      *)
(***************************************************************************)
LowerDigits == <<"0", "1", "2", "3", "4", "5", "6", "7", "8", "9",
                 "a", "b", "c", "d", "e", "f">>

UpperDigits == <<"0", "1", "2", "3", "4", "5", "6", "7", "8", "9",
                 "A", "B", "C", "D", "E", "F">>

\* the value of a digit character, 16 for a character that is no digit
DigitVal(c) ==
    IF \E i \in 1..16 : LowerDigits[i] = c
    THEN (CHOOSE i \in 1..16 : LowerDigits[i] = c) - 1
    ELSE IF \E i \in 1..16 : UpperDigits[i] = c
    THEN (CHOOSE i \in 1..16 : UpperDigits[i] = c) - 1
    ELSE 16

AllDigits(s, radix) == \A k \in 1..Len(s) : DigitVal(s[k]) < radix

\* the number the digits s write in the radix, most significant first
RECURSIVE ParseDigits(_, _, _)
ParseDigits(s, radix, acc) ==
    IF s = <<>> THEN acc
    ELSE ParseDigits(Tail(s), radix, LMulAdd(acc, radix, DigitVal(s[1])))

Ok(kind, val) == [kind |-> kind, val |-> val]
Thrown(name) == [kind |-> "error", val |-> name]

\* BigInt(s) of a string: StringToBigInt. Decimal digits, or a 0b / 0o / 0x
\* prefix (either case) and digits of that radix; anything else is a SyntaxError.
\* (The strings here hold no white space and no sign.)
BigInt(s) ==
    LET radixOf(c) == IF c \in {"b", "B"} THEN 2
                      ELSE IF c \in {"o", "O"} THEN 8
                      ELSE IF c \in {"x", "X"} THEN 16 ELSE 0
    IN  IF AllDigits(s, 10) THEN Ok("bigint", ParseDigits(s, 10, <<>>))
        ELSE IF Len(s) >= 3 /\ s[1] = "0" /\ radixOf(s[2]) # 0
                /\ AllDigits(SubSeq(s, 3, Len(s)), radixOf(s[2]))
        THEN Ok("bigint", ParseDigits(SubSeq(s, 3, Len(s)), radixOf(s[2]), <<>>))
        ELSE Thrown("SyntaxError")

\* the four hexadecimal digits of a limb, most significant first
LimbHex(l) == << LowerDigits[(l \div 4096) + 1], LowerDigits[((l \div 256) % 16) + 1],
                 LowerDigits[((l \div 16) % 16) + 1], LowerDigits[(l % 16) + 1] >>

RECURSIVE StripZeros(_)
StripZeros(s) ==
    IF Len(s) > 1 /\ s[1] = "0" THEN StripZeros(Tail(s)) ELSE s

RECURSIVE AllLimbHex(_)
AllLimbHex(a) ==
    IF a = <<>> THEN <<>> ELSE AllLimbHex(Tail(a)) \o LimbHex(a[1])

\* BigInt.prototype.toString(16) of a non-negative value
ToString16(a) == IF a = <<>> THEN <<"0">> ELSE StripZeros(AllLimbHex(a))

\* String.prototype.padStart(n, c)
PadStart(s, n, c) == [k \in 1..Max(n - Len(s), 0) |-> c] \o s

\* String.prototype.slice(from, to), 0 <= from <= to
StrSlice(s, from, to) ==
    SubSeq(s, from + 1, IF to > Len(s) THEN Len(s) ELSE to)

\* parseInt(s, 16) of a string of hexadecimal digits: an integer, or -1 for NaN
ParseInt16(s) ==
    IF s = <<>> THEN -1
    ELSE IF Len(s) = 1 THEN DigitVal(s[1])
    ELSE 16 * DigitVal(s[1]) + DigitVal(s[2])

(***************************************************************************)
(* 32-bit operators of JavaScript, on integers within 32 bits.             *)
(***************************************************************************)
\* b << n for a byte b: the low 32 bits of b * 2^n, read as a signed integer
ShiftLeft(b, n) ==
    IF n = 24 /\ b >= 128 THEN (b - 256) * 2^24 ELSE b * 2^n

\* x >> 24 (sign-propagating) of a signed 32-bit integer
ShiftRight24(x) == x \div 2^24

\* x >>> 0 of an integer in -2^31 .. 2^31 - 1: x modulo 2^32, as limbs
ToUint32(x) ==
    IF x >= 0 THEN Nat2L(x) ELSE Norm(<<x % Limb, (x \div Limb) + Limb>>)

\* a % b of JavaScript for integers, b # 0: the sign is the dividend's
Remainder(a, b) ==
    LET abs(x) == IF x < 0 THEN -x ELSE x
        r == abs(a) % abs(b)
    IN  IF a < 0 THEN -r ELSE r

(***************************************************************************)
(* The functions of GeneratorUtils.  A function that takes a Uint8Array    *)
(* yields [ret, input]: its outcome and the array as the call leaves it.   *)
(***************************************************************************)
Nibble_To_Char_Map == UpperDigits

\* the string s the loop of bufferToBigInt builds from the bytes
HexOfBytes(bytes) ==
    [k \in 1..(2 * Len(bytes)) |->
        IF k % 2 = 1 THEN Nibble_To_Char_Map[(bytes[(k + 1) \div 2] \div 16) + 1]
        ELSE Nibble_To_Char_Map[(bytes[k \div 2] % 16) + 1]]

bufferToBigInt(input) ==
    IF 8 # input.length
    THEN [ret |-> Thrown("Error"), input |-> input]
    ELSE LET reversed == Reverse(input)
             s == HexOfBytes(Elems(reversed))
         IN  [ret |-> BigInt(s), input |-> reversed]

readUint32At(bytes, index) ==
    LET at(k) == IF HasIndex(bytes, index + k) THEN Get(bytes, index + k) ELSE 0
        sum == at(0) + ShiftLeft(at(1), 8) + ShiftLeft(at(2), 16) + ShiftLeft(at(3), 24)
    IN  \* undefined << n is 0, but undefined + n is NaN, and NaN >>> 0 is 0
        [ret |-> Ok("number", IF HasIndex(bytes, index) THEN ToUint32(sum) ELSE <<>>),
         input |-> bytes]

uintToBuffer_BigEndian(uintValue, bufferSize) ==
    IF bufferSize < 0 THEN Thrown("RangeError")
    ELSE LET buffer == ZeroBytes(bufferSize)
         IN  IF 1 = bufferSize THEN Ok("bytes", Uint8Array(setUint8(buffer, uintValue)))
             ELSE IF 2 = bufferSize
             THEN Ok("bytes", Uint8Array(setUint16(buffer, uintValue, FALSE)))
             ELSE IF 4 = bufferSize
             THEN Ok("bytes", Uint8Array(setUint32(buffer, uintValue, FALSE)))
             ELSE Thrown("Error")

uintToBuffer(uintValue, bufferSize) ==
    IF bufferSize < 0 THEN Thrown("RangeError")
    ELSE LET buffer == ZeroBytes(bufferSize)
         IN  IF 1 = bufferSize THEN Ok("bytes", Uint8Array(setUint8(buffer, uintValue)))
             ELSE IF 2 = bufferSize
             THEN Ok("bytes", Uint8Array(setUint16(buffer, uintValue, TRUE)))
             ELSE IF 4 = bufferSize
             THEN Ok("bytes", Uint8Array(setUint32(buffer, uintValue, TRUE)))
             ELSE Thrown("Error")

bufferToUint(buffer) ==
    LET dataView == buffer.buffer
        byteLength == buffer.length
    IN  [ret |-> IF byteLength \in {1, 2, 4} /\ ~ViewHas(dataView, byteLength)
                 THEN Thrown("Error")
                 ELSE IF 1 = byteLength THEN Ok("number", getUint8(dataView))
                 ELSE IF 2 = byteLength THEN Ok("number", getUint16(dataView, TRUE))
                 ELSE IF 4 = byteLength THEN Ok("number", getUint32(dataView, TRUE))
                 ELSE Thrown("Error"),
         input |-> buffer]

\* the while loop of bigIntToBuffer; len is hex.length / 2, so i < len is 2i < hex.length
RECURSIVE FillFromHex(_, _, _, _)
FillFromHex(uint8, hex, i, j) ==
    IF 2 * i < Len(hex)
    THEN FillFromHex(Store(uint8, i, Max(ParseInt16(StrSlice(hex, j, j + 2)), 0)),
                     hex, i + 1, j + 2)
    ELSE uint8

bigIntToBuffer(input) ==
    LET hex == PadStart(ToString16(input), 16, "0")
        \* new Uint8Array(len) takes the integer part of len
        uint8 == Uint8Array(ZeroBytes(Len(hex) \div 2))
    IN  Ok("bytes", FillFromHex(uint8, hex, 0, 0))

concatTypedArrays(array1, array2) ==
    LET newArray == Uint8Array(ZeroBytes(array1.length + array2.length))
        set(a, src, at) ==
            [a EXCEPT !.buffer = [k \in 1..Len(a.buffer) |->
                IF k > at /\ k <= at + src.length THEN Get(src, k - at - 1)
                ELSE a.buffer[k]]]
    IN  [ret |-> Ok("bytes", set(set(newArray, array1, 0), array2, array1.length)),
         input |-> <<array1, array2>>]

uint8ToInt8(input) ==
    IF 255 < input THEN Thrown("Error")
    ELSE Ok("int", ShiftRight24(ShiftLeft(input % 256, 24)))

getBytes(binary, size) ==
    [ret |-> IF size > binary.length THEN Thrown("RangeError")
             ELSE Ok("bytes", Slice(binary, 0, size)),
     input |-> binary]

getTransactionPaddingSize_NoZeroCase(size, alignment) ==
    IF alignment = 0 THEN Ok("nan", 0)
    ELSE Ok("int", alignment - Remainder(size, alignment))

getTransactionPaddingSize(size, alignment) ==
    IF alignment = 0 THEN Ok("nan", 0)      \* size % 0 is NaN, and so is the result
    ELSE IF 0 = Remainder(size, alignment) THEN Ok("int", 0)
    ELSE Ok("int", alignment - Remainder(size, alignment))

compact_OffByOne(uint64) ==
    LET low == uint64[1]
        high == uint64[2]
    IN  IF LLess(Nat2L(2097152), high) THEN Ok("pair", uint64)
        ELSE Ok("number", LAdd(LShl32(high), low))

compact(uint64) ==
    LET low == uint64[1]
        high == uint64[2]
    IN  IF LLeq(Nat2L(2097152), high) THEN Ok("pair", uint64)    \* 0x00200000 <= high
        ELSE Ok("number", LAdd(LShl32(high), low))

\* the high half taken with number >>> 32, which shifts by 32 mod 32 = 0
fromUint_ShiftHigh(number) ==
    Ok("pair", <<LMod32(number), LMod32(number)>>)

fromUint(number) ==
    Ok("pair", <<LMod32(number), LMod32(LShr32(number))>>)

(***************************************************************************)
(* The values the calls are made with.                                     *)
(***************************************************************************)
SampleBytes == {0, 1, 255}
FillBytes == {0, 17, 153}
SampleLimbs == {0, 1, 16, 2748, 65535}
SampleWords == {0, 1, 255, 256, 4660, 32768, 65535}
SafeLimbs == {0, 1, 31, 32, 65535}

SeqsUpTo(S, n) == UNION {[1..k -> S] : k \in 0..n}

\* limb sequences that are numbers: no most-significant zero limb
Numbers(S, n) == {a \in SeqsUpTo(S, n) : a = Norm(a)}

\* each byte sequence as a whole Uint8Array, and as the subarray(1) of one
TypedArrays(n) ==
    {Uint8Array(s) : s \in SeqsUpTo(SampleBytes, n)}
    \cup {[buffer |-> s, byteOffset |-> 1, length |-> Len(s) - 1] :
             s \in SeqsUpTo(SampleBytes, n) \ {<<>>}}

\* eight bytes f, one of them replaced by x
Filled(f, i, x) == [k \in 1..8 |-> IF k = i THEN x ELSE f]

EightBytes == {Filled(f, i, x) : f \in FillBytes, i \in 1..8, x \in Byte}

BigIntInputs ==
    {Uint8Array(s) : s \in EightBytes}
    \cup {[buffer |-> <<7>> \o Filled(0, i, x), byteOffset |-> 1, length |-> 8] :
             i \in {1, 8}, x \in SampleBytes}
    \cup {Uint8Array([k \in 1..n |-> f]) : n \in {0, 7, 9}, f \in FillBytes}

BigInts == Numbers(SampleLimbs, MaxLimbs)

UintValues == {Nat2L(v) : v \in Byte} \cup Numbers(SampleWords, 3)

Uint32s == Numbers(SampleWords, 2)

Uint64s ==
    {<<low, high>> : low \in Uint32s,
                     high \in Uint32s \cup {Nat2L(2097151), Nat2L(2097152), Nat2L(2097153)}}

\* Number.MAX_SAFE_INTEGER, 2^53 - 1
MAX_SAFE_INTEGER == <<65535, 65535, 65535, 31>>

\* non-negative integers a Number holds exactly: the safe integers and, above
\* them, multiples of 2^16 below 2^64
Integers64 ==
    {a \in Numbers(SafeLimbs, 4) : LLeq(a, MAX_SAFE_INTEGER) \/ a[1] = 0}

(***************************************************************************)
(* The state machine: a caller makes a call with values of its own, and    *)
(* may pass what a call returned on to a next call.                        *)
(***************************************************************************)
Init ==
    /\ op = "none"
    /\ args = <<>>
    /\ heap = <<>>
    /\ ret = Ok("none", 0)
    /\ prev = [op |-> "none", args |-> <<>>]
    /\ calls = 0

\* the values a call may take: the caller's own on a first call, afterwards
\* the value the call before returned, when it is of the kind wanted
Inputs(kind, own) ==
    IF calls = 0 THEN own
    ELSE IF ret.kind = kind THEN {ret.val}
    ELSE {}

Called(name, a, h, r) ==
    /\ op' = name
    /\ args' = a
    /\ heap' = h
    /\ ret' = r
    /\ prev' = [op |-> op, args |-> args]
    /\ calls' = calls + 1

CallBufferToBigInt ==
    /\ calls < MaxCalls
    /\ \E input \in Inputs("bytes", BigIntInputs) :
          LET r == bufferToBigInt(input)
          IN  Called("bufferToBigInt", <<input>>, <<r.input>>, r.ret)

CallReadUint32At ==
    /\ calls = 0
    /\ \E bytes \in TypedArrays(MaxLen), index \in -1..(MaxLen + 1) :
          LET r == readUint32At(bytes, index)
          IN  Called("readUint32At", <<bytes, index>>, <<r.input>>, r.ret)

CallUintToBuffer ==
    /\ calls < MaxCalls
    /\ \E uintValue \in Inputs("number", UintValues), bufferSize \in -1..MaxWidth :
          Called("uintToBuffer", <<uintValue, bufferSize>>, <<>>,
                 uintToBuffer(uintValue, bufferSize))

CallBufferToUint ==
    /\ calls < MaxCalls
    /\ \E buffer \in Inputs("bytes", TypedArrays(MaxLen)) :
          LET r == bufferToUint(buffer)
          IN  Called("bufferToUint", <<buffer>>, <<r.input>>, r.ret)

CallBigIntToBuffer ==
    /\ calls < MaxCalls
    /\ \E input \in Inputs("bigint", BigInts) :
          Called("bigIntToBuffer", <<input>>, <<>>, bigIntToBuffer(input))

CallConcatTypedArrays ==
    /\ calls = 0
    /\ \E array1 \in TypedArrays(MaxConcatLen), array2 \in TypedArrays(MaxConcatLen) :
          LET r == concatTypedArrays(array1, array2)
          IN  Called("concatTypedArrays", <<array1, array2>>, r.input, r.ret)

CallUint8ToInt8 ==
    /\ calls = 0
    /\ \E input \in (-Span)..(255 + Span) :
          Called("uint8ToInt8", <<input>>, <<>>, uint8ToInt8(input))

CallGetBytes ==
    /\ calls = 0
    /\ \E binary \in TypedArrays(MaxLen), size \in -2..(MaxLen + 1) :
          LET r == getBytes(binary, size)
          IN  Called("getBytes", <<binary, size>>, <<r.input>>, r.ret)

CallGetTransactionPaddingSize ==
    /\ calls = 0
    /\ \E size \in -2..MaxSize, alignment \in 0..MaxAlignment :
          Called("getTransactionPaddingSize", <<size, alignment>>, <<>>,
                 getTransactionPaddingSize(size, alignment))

CallCompact ==
    /\ calls < MaxCalls
    /\ \E uint64 \in Inputs("pair", Uint64s) :
          Called("compact", <<uint64>>, <<>>, compact(uint64))

CallFromUint ==
    /\ calls < MaxCalls
    /\ \E number \in Inputs("number", Integers64) :
          Called("fromUint", <<number>>, <<>>, fromUint(number))

Next ==
    \/ CallBufferToBigInt
    \/ CallReadUint32At
    \/ CallUintToBuffer
    \/ CallBufferToUint
    \/ CallBigIntToBuffer
    \/ CallConcatTypedArrays
    \/ CallUint8ToInt8
    \/ CallGetBytes
    \/ CallGetTransactionPaddingSize
    \/ CallCompact
    \/ CallFromUint

Spec == Init /\ [][Next]_vars

(***************************************************************************)
(* Values the properties are stated with.                                  *)
(***************************************************************************)
\* the sum of bytes[i] * 256^(i-1): the little-endian value of a byte sequence
LittleEndianValue(bytes) ==
    Norm([k \in 1..((Len(bytes) + 1) \div 2) |->
            bytes[2 * k - 1] + (IF 2 * k <= Len(bytes) THEN 256 * bytes[2 * k] ELSE 0)])

\* the big-endian value of a byte sequence
BigEndianValue(bytes) ==
    LittleEndianValue([k \in 1..Len(bytes) |-> bytes[Len(bytes) + 1 - k]])

\* byte i (from 0) of the little-endian base-256 expansion: floor(a / 256^i) mod 256
ByteOf(a, i) ==
    LET l == LimbAt(a, (i \div 2) + 1)
    IN  IF i % 2 = 0 THEN l % 256 ELSE l \div 256

IsUint32(a) == Len(a) <= 2

\* high * 2^32 + low, for low < 2^32
Join(low, high) == Norm(<<LimbAt(low, 1), LimbAt(low, 2)>> \o high)

\* v < 256^w, for w in {1, 2, 4}
Fits(v, w) ==
    IF w = 1 THEN Len(v) <= 1 /\ LimbAt(v, 1) < 256
    ELSE IF w = 2 THEN Len(v) <= 1
    ELSE Len(v) <= 2

\* the Uint8Array arguments of the last call, as the caller passed them
ArraysPassed ==
    IF op \in {"bufferToBigInt", "readUint32At", "bufferToUint", "getBytes"}
    THEN <<args[1]>>
    ELSE IF op = "concatTypedArrays" THEN <<args[1], args[2]>>
    ELSE <<>>

\* the last call was given what the call before it, a call of name, returned
PassedOnFrom(name) == calls >= 2 /\ prev.op = name

(***************************************************************************)
(* C1: for every 8-byte sequence b, bigIntToBuffer(bufferToBigInt(b))      *)
(* returns a byte sequence equal to b as the caller supplied it: the same  *)
(* 8 bytes in the same order.                                              *)
(***************************************************************************)
C1_RoundTrip8 ==
    /\ (op = "bufferToBigInt" /\ args[1].length = 8) => ret.kind = "bigint"
    /\ (op = "bigIntToBuffer" /\ PassedOnFrom("bufferToBigInt")
            /\ prev.args[1].length = 8)
       => /\ ret.kind = "bytes"
          /\ Elems(ret.val) = Elems(prev.args[1])

(***************************************************************************)
(* C2: for every 8-byte input b, bufferToBigInt(b) succeeds and returns    *)
(* the little-endian value of b, the sum of b[i] * 256^i, whatever the     *)
(* nibbles of the bytes are (A..F or decimal digits).                      *)
(***************************************************************************)
C2_LittleEndianValue ==
    (op = "bufferToBigInt" /\ args[1].length = 8)
    => /\ ret.kind = "bigint"
       /\ ret.val = LittleEndianValue(Elems(args[1]))

(***************************************************************************)
(* C3: no operation mutates a byte sequence passed to it: after any call   *)
(* the caller's buffers hold the bytes they held before the call.          *)
(***************************************************************************)
C3_InputsUnchanged == heap = ArraysPassed

(***************************************************************************)
(* C4: readUint32At(bytes, index) fails with an error whenever             *)
(* index + 4 > length(bytes); it returns no number for a read that touches *)
(* a position outside the buffer.                                          *)
(***************************************************************************)
C4_OutOfRangeFails ==
    (op = "readUint32At" /\ (args[2] + 4 > args[1].length \/ args[2] < 0))
    => ret.kind = "error"

(***************************************************************************)
(* C5: for every width w in {1, 2, 4} and every integer v with             *)
(* 0 <= v < 256^w, uintToBuffer(v, w) has exactly w bytes, byte i being    *)
(* floor(v / 256^i) mod 256, and bufferToUint(uintToBuffer(v, w)) = v.     *)
(***************************************************************************)
C5_UintRoundTrip ==
    /\ (op = "uintToBuffer" /\ args[2] \in {1, 2, 4} /\ Fits(args[1], args[2]))
       => /\ ret.kind = "bytes"
          /\ ret.val.length = args[2]
          /\ \A i \in 0..(args[2] - 1) : Get(ret.val, i) = ByteOf(args[1], i)
    /\ (op = "bufferToUint" /\ PassedOnFrom("uintToBuffer")
            /\ prev.args[2] \in {1, 2, 4} /\ Fits(prev.args[1], prev.args[2]))
       => /\ ret.kind = "number"
          /\ ret.val = prev.args[1]

\* 0xFFFF1234 went through uintToBuffer(_, 4) and came back from bufferToUint
C5_Witness ==
    /\ op = "bufferToUint"
    /\ PassedOnFrom("uintToBuffer")
    /\ prev.args = << <<4660, 65535>>, 4 >>
    /\ Elems(args[1]) = <<52, 18, 255, 255>>
    /\ ret.kind = "number"

(***************************************************************************)
(* C6: uint8ToInt8(input) fails for every integer input outside [0, 255],  *)
(* above 255 or negative; for an input in [0, 255] it returns input if     *)
(* input < 128 and input - 256 otherwise.                                  *)
(***************************************************************************)
C6_RangeChecked ==
    op = "uint8ToInt8"
    => IF args[1] \in 0..255
       THEN ret = Ok("int", IF args[1] < 128 THEN args[1] ELSE args[1] - 256)
       ELSE ret.kind = "error"

(***************************************************************************)
(* C7: for every pair [low, high] of 32-bit unsigned values, compact       *)
(* returns the number high * 2^32 + low exactly when high < 0x00200000 and *)
(* the pair unchanged otherwise; a number it returns is at most 2^53 - 1.  *)
(***************************************************************************)
C7_CompactSafe ==
    (op = "compact" /\ IsUint32(args[1][1]) /\ IsUint32(args[1][2]))
    => /\ LLess(args[1][2], Nat2L(2097152))
          => (ret.kind = "number" /\ ret.val = Join(args[1][1], args[1][2]))
       /\ ~LLess(args[1][2], Nat2L(2097152))
          => (ret.kind = "pair" /\ ret.val = args[1])
       /\ ret.kind = "number" => LLeq(ret.val, MAX_SAFE_INTEGER)

\* the largest pair that is compacted: [0xFFFFFFFF, 0x001FFFFF] gives 2^53 - 1
C7_Witness ==
    /\ op = "compact"
    /\ args[1] = << <<65535, 65535>>, <<65535, 31>> >>
    /\ ret.kind = "number"
    /\ ret.val = MAX_SAFE_INTEGER

(***************************************************************************)
(* C8: for every integer v with 0 <= v <= 2^53 - 1, fromUint(v) returns    *)
(* [v mod 2^32, floor(v / 2^32)], both in [0, 2^32 - 1], and               *)
(* compact(fromUint(v)) = v.                                               *)
(***************************************************************************)
C8_FromUintInverse ==
    /\ (op = "fromUint" /\ LLeq(args[1], MAX_SAFE_INTEGER))
       => /\ ret.kind = "pair"
          /\ ret.val[1] = Norm(<<LimbAt(args[1], 1), LimbAt(args[1], 2)>>)
          /\ ret.val[2] = Norm(<<LimbAt(args[1], 3), LimbAt(args[1], 4)>>)
          /\ IsUint32(ret.val[1]) /\ IsUint32(ret.val[2])
    /\ (op = "compact" /\ PassedOnFrom("fromUint")
            /\ LLeq(prev.args[1], MAX_SAFE_INTEGER))
       => /\ ret.kind = "number"
          /\ ret.val = prev.args[1]

\* 2^53 - 1 went through fromUint and came back from compact
C8_Witness ==
    /\ op = "compact"
    /\ PassedOnFrom("fromUint")
    /\ prev.args[1] = MAX_SAFE_INTEGER
    /\ args[1] = << <<65535, 65535>>, <<65535, 31>> >>
    /\ ret.kind = "number"

(***************************************************************************)
(* C9: for every non-negative value, bigIntToBuffer(value) returns at      *)
(* least 8 bytes whose big-endian value is value; for a value >= 2^64,     *)
(* with an odd or an even number of hexadecimal digits, it returns more    *)
(* than 8 bytes and truncates nothing.                                     *)
(***************************************************************************)
C9_NoTruncation ==
    op = "bigIntToBuffer"
    => /\ ret.kind = "bytes"
       /\ ret.val.length >= 8
       /\ BigEndianValue(Elems(ret.val)) = args[1]
       /\ Len(args[1]) > 4 => ret.val.length > 8

(***************************************************************************)
(* C10: for size >= 0 and alignment > 0, getTransactionPaddingSize returns *)
(* the smallest p >= 0 with (size + p) mod alignment = 0; so p < alignment *)
(* and p = 0 exactly when size is a multiple of alignment.                 *)
(***************************************************************************)
C10_SmallestPadding ==
    (op = "getTransactionPaddingSize" /\ args[1] >= 0 /\ args[2] > 0)
    => /\ ret.kind = "int"
       /\ ret.val >= 0
       /\ (args[1] + ret.val) % args[2] = 0
       /\ \A q \in 0..(ret.val - 1) : (args[1] + q) % args[2] # 0
       /\ ret.val < args[2]
       /\ ret.val = 0 <=> args[1] % args[2] = 0

\* padding-size(14, 8) is 2
C10_Witness ==
    /\ op = "getTransactionPaddingSize"
    /\ args = <<14, 8>>
    /\ ret = Ok("int", 2)

=============================================================================
